---- MODULE Spec2Model ----
(***************************************************************************)
(* Model of src/src/main.rs: a pool of Arc<tokio::sync::Mutex<Db>> shards, *)
(* the startup path of main, the mutation worker task (lines 105-129) and  *)
(* the reconciliation worker task (lines 138-165).                         *)
(*                                                                         *)
(* A mutex cell (one Arc<Mutex<Db>> allocation) is an index into mutexes;  *)
(* a pool (Vec<Arc<Mutex<Db>>>) is a sequence of such indices, so cloning  *)
(* an Arc copies the index and two slots alias exactly when they are equal.*)
(* Db (HashMap<i32, String>) is a set of <<key, value>> pairs with unique  *)
(* keys.  Code indices are 0-based; sequences here are 1-based.            *)
(***************************************************************************)
EXTENDS Integers, Naturals, Sequences, FiniteSets, TLC

VARIABLES
    build,                \* "debug" | "release": whether i32 overflow is checked
    mutexes,              \* every Arc<Mutex<Db>> allocated: [data, holders]
    map_shards,           \* main's pool, moved into the mutation worker at line 105
    current_data_length,  \* lines 72, 88; copied into the reconciliation worker
    mainPc,               \* position of main
    bcast,                \* broadcast channel: pools sent and not yet received
    bcastRx,              \* map_shards_receiver is alive
    queue,                \* mpsc channel buffer (Db snapshots)
    queueRx,              \* mutex_data_receiver is alive
    senders,              \* tasks owning a live mpsc Sender handle
    rngState,             \* state of the shared ChaCha12Rng
    rngHolders,           \* tasks holding rand_generator's lock
    mutPc, idx, random,   \* mutation worker: position, loop index, drawn number
    reconPc, largest_data,\* reconciliation worker: position, received snapshot
    otherHeld, otherCount,\* another holder of the pool reference
    attempts,             \* history: try_lock attempts [idx, ok, data]
    inserts,              \* history: inserts performed [idx, key, data]
    sentLog,              \* history: snapshots accepted by the queue [idx, data]
    recvLog,              \* history: snapshots delivered to the reconciliation worker
    published             \* history: pools accepted by the broadcast channel

vars == <<build, mutexes, map_shards, current_data_length, mainPc, bcast, bcastRx,
          queue, queueRx, senders, rngState, rngHolders, mutPc, idx, random,
          reconPc, largest_data, otherHeld, otherCount, attempts, inserts,
          sentLog, recvLog, published>>

mainVars  == <<map_shards, current_data_length, mainPc>>
mutVars   == <<mutPc, idx, random>>
reconVars == <<reconPc, largest_data>>
otherVars == <<otherHeld, otherCount>>
rngVars   == <<rngState, rngHolders>>
histVars  == <<attempts, inserts, sentLog, recvLog, published>>

(***************************************************************************)
(* Program constants and model bounds                                      *)
(***************************************************************************)
\* line 54: let shards = 10
shards == 10

\* largest initial position of the generator's keystream drawn in Init
MaxSeed == 3

\* largest number of entries in a pool found on the broadcast channel at startup
MaxPreload == 2

\* how many times the other holder may take a shard lock
MaxOtherLocks == 1

\* i32::MAX and i32::MIN (keys are i32, line 53)
I32Max == 2147483647
I32Min == (-I32Max) - 1

(***************************************************************************)
(* Db = HashMap<i32, String>                                               *)
(***************************************************************************)
LAZY_STATIC_SHARED_DATA == {}

DbLen(db) == Cardinality(db)

DbKeys(db) == {p[1] : p \in db}

\* HashMap::insert: the entry with that exact key is overwritten
DbInsert(db, k, v) == {p \in db : p[1] # k} \cup {<<k, v>>}

\* format!("value is {}", idx)
FormatValue(i) == "value is " \o ToString(i)

\* i32 wrapping addition (a + b modulo 2^32, as a signed value), computed without
\* leaving the i32 range
WrapAdd(a, b) ==
    IF a > 0 /\ b > 0 /\ a > I32Max - b THEN (a + I32Min) + (b + I32Min)
    ELSE IF a < 0 /\ b < 0 /\ a < I32Min - b THEN (a - I32Min) + (b - I32Min)
    ELSE a + b

\* i32 wrapping multiplication of a small non-negative i by r: i-fold wrapping sum
RECURSIVE WrapMul(_, _)
WrapMul(i, r) == IF i = 0 THEN 0 ELSE WrapAdd(WrapMul(i - 1, r), r)

\* the exact product i * r (i >= 0) does not fit in an i32
MulOverflows(i, r) ==
    /\ i > 0
    /\ \/ r > I32Max \div i
       \/ r < (I32Min + (i - 1)) \div i

(***************************************************************************)
(* ChaCha12Rng: the state is a position in the keystream; gen::<i32>()     *)
(* returns the word at the position and advances the position.             *)
(***************************************************************************)
Keystream(s) ==
    CASE s % 6 = 0 -> 1073741824
      [] s % 6 = 1 -> I32Min
      [] s % 6 = 2 -> 0
      [] s % 6 = 3 -> 1
      [] s % 6 = 4 -> -1
      [] OTHER     -> I32Max

RngGen(s) == [value |-> Keystream(s), state |-> s + 1]

\* line 113: rng.to_owned() clones the generator behind the guard, gen() advances
\* the clone, and the clone is dropped: the shared state is left as it was
DrawOnClone(s) == [value |-> RngGen(s).value, shared |-> s]

(***************************************************************************)
(* Arc<Mutex<Db>> cells and pools                                          *)
(***************************************************************************)
NewMutex(db) == [data |-> db, holders |-> {}]

\* vec![elem; n]: elem is evaluated once and cloned into every slot
VecFromElem(elem, n) == [i \in 1..n |-> elem]

Holders(id) == mutexes[id].holders
Data(id)    == mutexes[id].data

\* nobody holds the mutex: lock().await may complete
Unlocked(id) == Holders(id) = {}

try_lock_unchecked(id) == TRUE

\* line 108: Mutex::try_lock returns Ok exactly when nobody holds the mutex
try_lock(id) == Unlocked(id)

Acquire(id, t) == [mutexes EXCEPT ![id].holders = @ \cup {t}]
Release(ms, id, t) == [ms EXCEPT ![id].holders = @ \ {t}]

Shard(i) == map_shards[i + 1]

\* line 61: send_sync_map is the first cell allocated
send_sync_map == 1

\* line 71: vec![send_sync_map; shards]
InitialPool == VecFromElem(send_sync_map, shards)

(***************************************************************************)
(* Initial state: lines 54-71 have run.  The broadcast channel is empty as *)
(* line 59 creates it, or it already holds one pool built the way line 147 *)
(* builds one (the only state in which the select! of line 84 completes).  *)
(***************************************************************************)
Preload(k) == {<<j, FormatValue(0)>> : j \in 0..(k - 1)}

Init ==
    /\ build \in {"debug", "release"}
    /\ rngState \in 0..MaxSeed
    /\ \/ /\ mutexes = <<NewMutex(LAZY_STATIC_SHARED_DATA)>>
          /\ bcast = <<>>
       \/ \E k \in 0..MaxPreload :
             /\ mutexes = <<NewMutex(LAZY_STATIC_SHARED_DATA), NewMutex(Preload(k))>>
             /\ bcast = <<VecFromElem(2, shards)>>
    /\ map_shards = InitialPool
    /\ current_data_length = 0
    /\ mainPc = "lock72"
    /\ bcastRx = TRUE
    /\ queue = <<>>
    /\ queueRx = TRUE
    /\ senders = {"main"}
    /\ rngHolders = {}
    /\ mutPc = "unspawned" /\ idx = 0 /\ random = 0
    /\ reconPc = "unspawned" /\ largest_data = <<>>
    /\ otherHeld = {} /\ otherCount = 0
    /\ attempts = <<>> /\ inserts = <<>> /\ sentLog = <<>> /\ recvLog = <<>>
    /\ published = <<>>

(***************************************************************************)
(* main                                                                    *)
(***************************************************************************)
\* lines 72 and 88: map_shards[0].lock().await
MainLock ==
    /\ mainPc \in {"lock72", "lock88"}
    /\ Unlocked(Shard(0))
    /\ mutexes' = Acquire(Shard(0), "main")
    /\ mainPc' = IF mainPc = "lock72" THEN "len72" ELSE "len88"
    /\ UNCHANGED <<build, map_shards, current_data_length, bcast, bcastRx, queue,
                   queueRx, senders, rngVars, mutVars, reconVars, otherVars, histVars>>

\* lines 72 and 88: .len(), then the temporary guard is dropped
MainLen ==
    /\ mainPc \in {"len72", "len88"}
    /\ current_data_length' = DbLen(Data(Shard(0)))
    /\ mutexes' = Release(mutexes, Shard(0), "main")
    /\ mainPc' = IF mainPc = "len72" THEN "select" ELSE "spawn105"
    /\ UNCHANGED <<build, map_shards, bcast, bcastRx, queue, queueRx, senders,
                   rngVars, mutVars, reconVars, otherVars, histVars>>

\* lines 84-87: recv() completes only when the channel holds a pool; the sender
\* is still owned by main, so on an empty channel main stays suspended here
MainSelect ==
    /\ mainPc = "select"
    /\ bcast # <<>>
    /\ map_shards' = Head(bcast)
    /\ bcast' = Tail(bcast)
    /\ mainPc' = "lock88"
    /\ UNCHANGED <<build, mutexes, current_data_length, bcastRx, queue, queueRx,
                   senders, rngVars, mutVars, reconVars, otherVars, histVars>>

\* line 105: tokio::spawn of the mutation worker (moves map_shards, the cloned
\* sender of line 62 and rand_generator into the task)
MainSpawnMutation ==
    /\ mainPc = "spawn105"
    /\ mutPc' = "spawned"
    /\ senders' = senders \cup {"mutation"}
    /\ mainPc' = "spawn138"
    /\ UNCHANGED <<build, mutexes, map_shards, current_data_length, bcast, bcastRx,
                   queue, queueRx, rngVars, idx, random, reconVars, otherVars, histVars>>

\* line 138: tokio::spawn of the reconciliation worker
MainSpawnRecon ==
    /\ mainPc = "spawn138"
    /\ reconPc' = "spawned"
    /\ mainPc' = "return"
    /\ UNCHANGED <<build, mutexes, map_shards, current_data_length, bcast, bcastRx,
                   queue, queueRx, senders, rngVars, mutVars, largest_data, otherVars,
                   histVars>>

\* line 169: main's future completes; map_shards_receiver and the first sender
\* (shadowed at line 62, never moved) are dropped, then the runtime shuts down
MainReturn ==
    /\ mainPc = "return"
    /\ mainPc' = "exited"
    /\ bcastRx' = FALSE
    /\ bcast' = <<>>
    /\ senders' = senders \ {"main"}
    /\ UNCHANGED <<build, mutexes, map_shards, current_data_length, queue, queueRx,
                   rngVars, mutVars, reconVars, otherVars, histVars>>

(***************************************************************************)
(* Mutation worker, lines 105-129                                          *)
(***************************************************************************)
\* lines 106-107: first poll of the task
MutStart ==
    /\ mutPc = "spawned"
    /\ mutPc' = "for"
    /\ idx' = 0
    /\ UNCHANGED <<build, mutexes, mainVars, bcast, bcastRx, queue, queueRx, senders,
                   rngVars, random, reconVars, otherVars, histVars>>

\* lines 108-109: try_lock() returned Ok(gaurd)
MutTryLockOk ==
    /\ mutPc = "for"
    /\ idx < Len(map_shards)
    /\ try_lock(Shard(idx))
    /\ mutexes' = Acquire(Shard(idx), "mutation")
    /\ attempts' = Append(attempts, [idx |-> idx, ok |-> TRUE, data |-> Data(Shard(idx))])
    /\ mutPc' = "genlock"
    /\ UNCHANGED <<build, mainVars, bcast, bcastRx, queue, queueRx, senders, rngVars,
                   idx, random, reconVars, otherVars, inserts, sentLog, recvLog,
                   published>>

MutTryLockErrRetry ==
    /\ mutPc = "for"
    /\ idx < Len(map_shards)
    /\ ~try_lock(Shard(idx))
    /\ attempts' = Append(attempts, [idx |-> idx, ok |-> FALSE, data |-> Data(Shard(idx))])
    /\ UNCHANGED <<build, mutexes, mainVars, bcast, bcastRx, queue, queueRx, senders,
                   rngVars, mutVars, reconVars, otherVars, inserts, sentLog,
                   recvLog, published>>

\* lines 108, 123-126: try_lock() returned Err, continue with the next index
MutTryLockErr ==
    /\ mutPc = "for"
    /\ idx < Len(map_shards)
    /\ ~try_lock(Shard(idx))
    /\ attempts' = Append(attempts, [idx |-> idx, ok |-> FALSE, data |-> Data(Shard(idx))])
    /\ idx' = idx + 1
    /\ UNCHANGED <<build, mutexes, mainVars, bcast, bcastRx, queue, queueRx, senders,
                   rngVars, mutPc, random, reconVars, otherVars, inserts, sentLog,
                   recvLog, published>>

\* line 112: generator.lock().await
MutGenLock ==
    /\ mutPc = "genlock"
    /\ rngHolders = {}
    /\ rngHolders' = {"mutation"}
    /\ mutPc' = "gen"
    /\ UNCHANGED <<build, mutexes, mainVars, bcast, bcastRx, queue, queueRx, senders,
                   rngState, idx, random, reconVars, otherVars, histVars>>

\* line 113: let random = rng.to_owned().gen::<i32>()
MutGen ==
    /\ mutPc = "gen"
    /\ random' = DrawOnClone(rngState).value
    /\ rngState' = DrawOnClone(rngState).shared
    /\ mutPc' = "insert"
    /\ UNCHANGED <<build, mutexes, mainVars, bcast, bcastRx, queue, queueRx, senders,
                   rngHolders, idx, reconVars, otherVars, histVars>>

\* the worker's task ends: its captured sender clone is dropped
MutSendersAfterEnd == senders \ {"mutation"}

\* unwinding drops rng (line 112) and gaurd (line 109)
MutUnwind ==
    /\ mutexes' = Release(mutexes, Shard(idx), "mutation")
    /\ rngHolders' = rngHolders \ {"mutation"}
    /\ senders' = MutSendersAfterEnd
    /\ mutPc' = "panicked"

\* lines 116-117: value = format!(..); gaurd.insert((idx as i32) * random, value)
MutInsert ==
    /\ mutPc = "insert"
    /\ ~(build = "debug" /\ MulOverflows(idx, random))
    /\ LET key == WrapMul(idx, random)
       IN /\ mutexes' = [mutexes EXCEPT ![Shard(idx)].data =
                             DbInsert(@, key, FormatValue(idx))]
          /\ inserts' = Append(inserts, [idx |-> idx, key |-> key,
                                         data |-> DbInsert(Data(Shard(idx)), key,
                                                           FormatValue(idx))])
    /\ mutPc' = "send"
    /\ UNCHANGED <<build, mainVars, bcast, bcastRx, queue, queueRx, senders, rngVars,
                   idx, random, reconVars, otherVars, attempts, sentLog, recvLog,
                   published>>

\* line 117 with overflow checks on: the multiplication panics
MutInsertPanic ==
    /\ mutPc = "insert"
    /\ build = "debug" /\ MulOverflows(idx, random)
    /\ MutUnwind
    /\ UNCHANGED <<build, mainVars, bcast, bcastRx, queue, queueRx, rngState, idx,
                   random, reconVars, otherVars, histVars>>

MutSendStale ==
    /\ mutPc = "send"
    /\ queueRx
    /\ Len(queue) < shards
    /\ queue' = Append(queue, attempts[Len(attempts)].data)
    /\ sentLog' = Append(sentLog, [idx |-> idx, data |-> attempts[Len(attempts)].data])
    /\ mutPc' = "release"
    /\ UNCHANGED <<build, mutexes, mainVars, bcast, bcastRx, queueRx, senders, rngVars,
                   idx, random, reconVars, otherVars, attempts, inserts, recvLog,
                   published>>

MutSendLifo ==
    /\ mutPc = "send"
    /\ queueRx
    /\ Len(queue) < shards
    /\ queue' = <<Data(Shard(idx))>> \o queue
    /\ sentLog' = Append(sentLog, [idx |-> idx, data |-> Data(Shard(idx))])
    /\ mutPc' = "release"
    /\ UNCHANGED <<build, mutexes, mainVars, bcast, bcastRx, queueRx, senders, rngVars,
                   idx, random, reconVars, otherVars, attempts, inserts, recvLog,
                   published>>

\* line 120: mutex_data_sender.send(gaurd.to_owned()).await returned Ok; the
\* send waits while the buffer (capacity shards, line 58) is full
MutSend ==
    /\ mutPc = "send"
    /\ queueRx
    /\ Len(queue) < shards
    /\ queue' = Append(queue, Data(Shard(idx)))
    /\ sentLog' = Append(sentLog, [idx |-> idx, data |-> Data(Shard(idx))])
    /\ mutPc' = "release"
    /\ UNCHANGED <<build, mutexes, mainVars, bcast, bcastRx, queueRx, senders, rngVars,
                   idx, random, reconVars, otherVars, attempts, inserts, recvLog,
                   published>>

MutSendIgnoreErr ==
    /\ mutPc = "send"
    /\ ~queueRx
    /\ mutPc' = "release"
    /\ UNCHANGED <<build, mutexes, mainVars, bcast, bcastRx, queue, queueRx, senders,
                   rngVars, idx, random, reconVars, otherVars, histVars>>

\* line 120: the receiver is gone, send returns Err and unwrap() panics
MutSendPanic ==
    /\ mutPc = "send"
    /\ ~queueRx
    /\ MutUnwind
    /\ UNCHANGED <<build, mainVars, bcast, bcastRx, queue, queueRx, rngState, idx,
                   random, reconVars, otherVars, histVars>>

MutReleaseLeak ==
    /\ mutPc = "release"
    /\ rngHolders' = rngHolders \ {"mutation"}
    /\ idx' = idx + 1
    /\ mutPc' = "for"
    /\ UNCHANGED <<build, mutexes, mainVars, bcast, bcastRx, queue, queueRx, senders,
                   rngState, random, reconVars, otherVars, histVars>>

\* line 122: end of the match arm, rng and gaurd go out of scope
MutRelease ==
    /\ mutPc = "release"
    /\ mutexes' = Release(mutexes, Shard(idx), "mutation")
    /\ rngHolders' = rngHolders \ {"mutation"}
    /\ idx' = idx + 1
    /\ mutPc' = "for"
    /\ UNCHANGED <<build, mainVars, bcast, bcastRx, queue, queueRx, senders, rngState,
                   random, reconVars, otherVars, histVars>>

\* lines 107, 129: the range is exhausted and the task completes
MutLoopEnd ==
    /\ mutPc = "for"
    /\ idx >= Len(map_shards)
    /\ mutPc' = "done"
    /\ senders' = MutSendersAfterEnd
    /\ UNCHANGED <<build, mutexes, mainVars, bcast, bcastRx, queue, queueRx, rngVars,
                   idx, random, reconVars, otherVars, histVars>>

\* runtime shutdown after line 169: a task that was never polled is dropped
MutCancel ==
    /\ mainPc = "exited"
    /\ mutPc = "spawned"
    /\ mutPc' = "cancelled"
    /\ senders' = MutSendersAfterEnd
    /\ UNCHANGED <<build, mutexes, mainVars, bcast, bcastRx, queue, queueRx, rngVars,
                   idx, random, reconVars, otherVars, histVars>>

(***************************************************************************)
(* Reconciliation worker, lines 138-165                                    *)
(***************************************************************************)
\* line 139: first poll of the task
ReconStart ==
    /\ reconPc = "spawned"
    /\ reconPc' = "recv"
    /\ UNCHANGED <<build, mutexes, mainVars, bcast, bcastRx, queue, queueRx, senders,
                   rngVars, mutVars, largest_data, otherVars, histVars>>

IsLargestOrEqual(db) == current_data_length <= DbLen(db)

\* line 144: check that this is the largest data
IsLargest(db) == current_data_length < DbLen(db)

\* lines 140-144, 152-156: recv() returned Some(largest_data); when the data is
\* not larger the task ends and its receiver is dropped with what is buffered
ReconRecv ==
    /\ reconPc = "recv"
    /\ queueRx
    /\ queue # <<>>
    /\ largest_data' = <<Head(queue)>>
    /\ recvLog' = Append(recvLog, Head(queue))
    /\ IF IsLargest(Head(queue))
          THEN /\ reconPc' = "publish"
               /\ queue' = Tail(queue)
               /\ queueRx' = queueRx
          ELSE /\ reconPc' = "done"
               /\ queue' = <<>>
               /\ queueRx' = FALSE
    /\ UNCHANGED <<build, mutexes, mainVars, bcast, bcastRx, senders, rngVars, mutVars,
                   otherVars, attempts, inserts, sentLog, published>>

\* lines 140, 158-162: recv() returned None (buffer empty, every sender dropped)
ReconRecvNone ==
    /\ reconPc = "recv"
    /\ queue = <<>>
    /\ senders = {}
    /\ reconPc' = "done"
    /\ queueRx' = FALSE
    /\ UNCHANGED <<build, mutexes, mainVars, bcast, bcastRx, queue, senders, rngVars,
                   mutVars, largest_data, otherVars, histVars>>

new_shards_short(db) == VecFromElem(Len(mutexes) + 1, shards - 1)

\* line 147: vec![Arc::new(tokio::sync::Mutex::new(largest_data)); shards]
new_shards(db) == VecFromElem(Len(mutexes) + 1, shards)

ReconPublishInPlace ==
    /\ reconPc = "publish"
    /\ bcastRx
    /\ mutexes' = [mutexes EXCEPT ![Shard(0)].data = largest_data[1]]
    /\ bcast' = Append(bcast, map_shards)
    /\ published' = Append(published, map_shards)
    /\ reconPc' = "done"
    /\ queue' = <<>>
    /\ queueRx' = FALSE
    /\ UNCHANGED <<build, mainVars, bcastRx, senders, rngVars, mutVars, largest_data,
                   otherVars, attempts, inserts, sentLog, recvLog>>

\* lines 147-150: build new_shards and broadcast it; the task then ends
ReconPublish ==
    /\ reconPc = "publish"
    /\ bcastRx
    /\ mutexes' = Append(mutexes, NewMutex(largest_data[1]))
    /\ bcast' = Append(bcast, new_shards(largest_data[1]))
    /\ published' = Append(published, new_shards(largest_data[1]))
    /\ reconPc' = "done"
    /\ queue' = <<>>
    /\ queueRx' = FALSE
    /\ UNCHANGED <<build, mainVars, bcastRx, senders, rngVars, mutVars, largest_data,
                   otherVars, attempts, inserts, sentLog, recvLog>>

\* line 150: no receiver is left, send returns Err and unwrap() panics
ReconPublishPanic ==
    /\ reconPc = "publish"
    /\ ~bcastRx
    /\ reconPc' = "panicked"
    /\ queue' = <<>>
    /\ queueRx' = FALSE
    /\ UNCHANGED <<build, mutexes, mainVars, bcast, bcastRx, senders, rngVars, mutVars,
                   largest_data, otherVars, histVars>>

\* runtime shutdown after line 169: the task is dropped where it is suspended
\* (never polled, or waiting in recv() on an empty buffer)
ReconCancel ==
    /\ mainPc = "exited"
    /\ \/ reconPc = "spawned"
       \/ reconPc = "recv" /\ queue = <<>> /\ senders # {}
    /\ reconPc' = "cancelled"
    /\ queueRx' = FALSE
    /\ UNCHANGED <<build, mutexes, mainVars, bcast, bcastRx, queue, senders, rngVars,
                   mutVars, largest_data, otherVars, histVars>>

(***************************************************************************)
(* Another task holding the pool reference: it takes a shard lock with     *)
(* try_lock and drops the guard later, without touching the content.       *)
(***************************************************************************)
MutRunning == mutPc \in {"spawned", "for", "genlock", "gen", "insert", "send", "release"}

OtherTryLock ==
    /\ MutRunning
    /\ otherHeld = {}
    /\ otherCount < MaxOtherLocks
    /\ \E j \in 0..(Len(map_shards) - 1) :
          /\ try_lock(Shard(j))
          /\ mutexes' = Acquire(Shard(j), "other")
          /\ otherHeld' = {Shard(j)}
    /\ otherCount' = otherCount + 1
    /\ UNCHANGED <<build, mainVars, bcast, bcastRx, queue, queueRx, senders, rngVars,
                   mutVars, reconVars, histVars>>

OtherUnlock ==
    /\ otherHeld # {}
    /\ \E id \in otherHeld : mutexes' = Release(mutexes, id, "other")
    /\ otherHeld' = {}
    /\ UNCHANGED <<build, mainVars, bcast, bcastRx, queue, queueRx, senders, rngVars,
                   mutVars, reconVars, otherCount, histVars>>

(***************************************************************************)
(* Specification                                                           *)
(***************************************************************************)
Next ==
    \/ MainLock \/ MainLen \/ MainSelect
    \/ MainSpawnMutation \/ MainSpawnRecon \/ MainReturn
    \/ MutStart \/ MutTryLockOk \/ MutTryLockErr \/ MutGenLock \/ MutGen
    \/ MutInsert \/ MutInsertPanic \/ MutSend \/ MutSendPanic \/ MutRelease
    \/ MutLoopEnd \/ MutCancel
    \/ ReconStart \/ ReconRecv \/ ReconRecvNone \/ ReconPublish
    \/ ReconPublishPanic \/ ReconCancel
    \/ OtherTryLock \/ OtherUnlock

Spec == Init /\ [][Next]_vars

\* the steps of main, of the mutation worker task and of the reconciliation
\* worker task (with what the runtime does to each)
MainStep ==
    \/ MainLock \/ MainLen \/ MainSelect
    \/ MainSpawnMutation \/ MainSpawnRecon \/ MainReturn

MutStep ==
    \/ MutStart \/ MutTryLockOk \/ MutTryLockErr \/ MutGenLock \/ MutGen
    \/ MutInsert \/ MutInsertPanic \/ MutSend \/ MutSendPanic \/ MutRelease
    \/ MutLoopEnd \/ MutCancel

ReconStep ==
    \/ ReconStart \/ ReconRecv \/ ReconRecvNone \/ ReconPublish
    \/ ReconPublishPanic \/ ReconCancel

\* the tokio runtime keeps polling every task that can make progress, and drops
\* the suspended ones once main has returned
FairSpec ==
    Spec /\ WF_vars(MainStep) /\ WF_vars(MutStep) /\ WF_vars(ReconStep)

(***************************************************************************)
(* Claims                                                                  *)
(***************************************************************************)
Slots == 1..shards

MutEnded == mutPc \in {"done", "panicked"}
ReconEnded == reconPc \in {"done", "panicked"}

\* the snapshots the queue accepted, in the order they were sent
SentData == [n \in 1..Len(sentLog) |-> sentLog[n].data]

\* C1: in every reachable state every shard lock of every pool (the initial one,
\* one received from the broadcast channel, one published) has at most one holder
C1_MutualExclusion ==
    \A id \in 1..Len(mutexes) : Cardinality(Holders(id)) <= 1

\* C1 witness: the mutation worker found a shard locked by the other holder, who
\* still holds it alone
C1_Witness ==
    \E n \in 1..Len(attempts) :
        /\ ~attempts[n].ok
        /\ Holders(Shard(attempts[n].idx)) = {"other"}

\* C2: the pool created at startup has N empty shards, and while some task holds
\* the lock of shard i a non-blocking lock attempt on any shard j # i succeeds
C2_IndependentlyLockable ==
    /\ Len(InitialPool) = shards
    /\ \A i \in Slots, j \in Slots :
          (i # j /\ Holders(InitialPool[i]) # {}) => try_lock(InitialPool[j])

C6_PublishedPoolIsSnapshot ==
    \A n \in 1..Len(published) :
        /\ Len(published[n]) = shards
        /\ \A i \in 1..Len(published[n]) : Data(published[n][i]) = largest_data[1]

\* C6 witness: a pool was published from a snapshot with at least two entries
C6_Witness ==
    /\ Len(published) = 1
    /\ DbLen(Data(published[1][shards])) >= 2

MutOver == mutPc \in {"done", "panicked", "cancelled"}
ReconOver == reconPc \in {"done", "panicked", "cancelled"}

\* main has returned and both tasks are gone: nothing can happen any more
AllOver == mainPc = "exited" /\ MutOver /\ ReconOver

SameData(ms1, ms2) == \A id \in 1..Len(ms1) : ms2[id].data = ms1[id].data

\* C11: a closed channel ends only the worker that touches it.  A send that
\* finds the receiver gone can only panic; that panic changes neither main nor
\* the reconciliation worker; after it the mutation worker inserts nothing and
\* no shard content changes.  With every sender gone the reconciliation worker
\* ends at its recv and nothing is published.
C11_ClosedChannelEndsOnlyItsWorker ==
    [][ /\ (mutPc = "send" /\ ~queueRx) => mutPc' \in {"send", "panicked"}
        /\ (mutPc = "send" /\ mutPc' = "panicked") =>
              /\ ~queueRx
              /\ mainPc' = mainPc
              /\ reconPc' = reconPc
              /\ inserts' = inserts
        /\ mutPc = "panicked" =>
              /\ mutPc' = "panicked"
              /\ inserts' = inserts
              /\ SameData(mutexes, mutexes')
        /\ (reconPc = "recv" /\ queue = <<>> /\ senders = {}) =>
              /\ reconPc' \in {"recv", "done"}
              /\ mainPc' = mainPc
              /\ mutPc' = mutPc
        /\ senders = {} => published' = published
      ]_vars

\* C11 witness: the send after the reconciliation worker's end has panicked (one
\* insert was not followed by a send) while main has not returned
C11_Witness ==
    /\ mutPc = "panicked"
    /\ Len(inserts) = Len(sentLog) + 1
    /\ reconPc = "done"
    /\ mainPc # "exited"

\* C12: from program start (the broadcast channel as line 59 creates it, empty)
\* the wait of line 84 eventually completes and both workers are spawned and run
C12_StartupCompletes ==
    (bcast = <<>>) => <>(mutPc \notin {"unspawned", "spawned"}
                          /\ reconPc \notin {"unspawned", "spawned"})

C15_PublishLeavesCapturedPool ==
    [][ /\ published' # published =>
              /\ \A id \in 1..Len(mutexes) : mutexes'[id] = mutexes[id]
              /\ map_shards' = map_shards
        /\ mutPc # "unspawned" => map_shards' = map_shards
      ]_vars

\* C15 witness: after a publish the mutation worker is still inside its pass,
\* holding a shard of the pool it captured, whose content is not the published one
C15_Witness ==
    /\ published # <<>>
    /\ mutPc = "send"
    /\ Holders(Shard(idx)) = {"mutation"}
    /\ Shard(idx) # published[1][1]
    /\ Data(Shard(idx)) # Data(published[1][1])

\* the mutexes whose guard the mutation worker holds
MutHeld == {id \in 1..Len(mutexes) : "mutation" \in Holders(id)}

C17_AttemptsInIndexOrder ==
    /\ Len(attempts) <= shards
    /\ \A n \in 1..Len(attempts) : attempts[n].idx = n - 1

\* C17 witness: a finished pass that attempted all N indices and skipped one
C17_Witness ==
    /\ mutPc = "done"
    /\ Len(attempts) = shards
    /\ \E n \in 1..Len(attempts) : ~attempts[n].ok

C19_MutationLockScope ==
    /\ Cardinality(MutHeld) <= 1
    /\ mutPc \in {"unspawned", "spawned", "for", "done", "panicked", "cancelled"} =>
          /\ MutHeld = {}
          /\ "mutation" \notin rngHolders

\* C19 witness: the pass ended by a failed send after two successful ones, and
\* no lock is left held
C19_Witness ==
    /\ mutPc = "panicked"
    /\ Len(sentLog) >= 2
    /\ Len(inserts) = Len(sentLog) + 1
    /\ MutHeld = {}
    /\ rngHolders = {}

====
